---- MODULE Spec2Model ----
(***************************************************************************)
(* The tool invocation pipeline of the MCP server template: the tool       *)
(* registry (src/server/tool-registry.ts), the sample tools (echo, ping),  *)
(* the README's example tool, and the dispatch of invocation requests to   *)
(* the handlers the registry binds.                                        *)
(***************************************************************************)
EXTENDS Integers, Sequences, FiniteSets, TLC

(* ------------------------------ bounds -------------------------------- *)

\* Calls of ToolRegistry.initialize in one run.
MaxInitialize == 2
\* Calls of ToolRegistry.setupToolHandlers on a populated table in one run.
MaxSetup == 2
\* Invocation requests in one run of the started server (all may be in
\* flight at once).
MaxInFlight == 2
\* Invocation requests in one run in which the registry's operations are
\* called in any order.
MaxProbes == 1
\* Clock ticks in one run.
MaxTicks == 2
\* The clock's first reading, in milliseconds: two short of a full second.
ClockStart == 998

(* --------------------------- tool classes ----------------------------- *)

Undefined == [cls |-> "undefined"]

ToolClasses == {"EchoTool", "PingTool", "MyTool"}

\* The value of a payload field: absent, a string or a number.
Absent == [t |-> "absent", v |-> ""]
Str(s) == [t |-> "string", v |-> s]
Num(s) == [t |-> "number", v |-> s]

Fields == {"message", "input"}

ToolName(cls) ==
  CASE cls = "EchoTool" -> "echo"
    [] cls = "PingTool" -> "ping"
    [] cls = "MyTool" -> "my_tool"

ToolDescription(cls) ==
  CASE cls = "EchoTool" -> "Echo back the input message"
    [] cls = "PingTool" -> "Check if the server is responding"
    [] cls = "MyTool" -> "Description of what my tool does"

\* An echo schema whose message is optional (z.string().optional()).
EchoInputSchema_Optional ==
  {[field |-> "message", type |-> "string", required |-> FALSE]}

\* z.object({...}): the declared fields, each a required z.string().
EchoInputSchema == {[field |-> "message", type |-> "string", required |-> TRUE]}

PingInputSchema == {}

MyToolInputSchema == {[field |-> "input", type |-> "string", required |-> TRUE]}

getInputSchema(cls) ==
  CASE cls = "EchoTool" -> EchoInputSchema
    [] cls = "PingTool" -> PingInputSchema
    [] cls = "MyTool" -> MyToolInputSchema

(* ----------------------------- registry ------------------------------- *)

\* The list `tools` of initialize: the repository's own, the README's
\* extension of it, and one in which a tool is entered a second time.
ToolLists ==
  { <<"EchoTool", "PingTool">>,
    <<"EchoTool", "PingTool", "MyTool">>,
    <<"EchoTool", "PingTool", "EchoTool">> }

VARIABLES
  tools,            \* the list initialize enumerates
  toolInstances,    \* Map<string, Tool>, as its entries in insertion order
  registeredTools,  \* string[]
  initCalls,        \* calls of initialize so far
  initOutcome,      \* how the last initialize ended: none | returned | threw
  transport,        \* the registrations the McpServer holds
  supplied,         \* the registerTool calls of the last setupToolHandlers
  setupRuns,        \* calls of setupToolHandlers on a populated table
  setupOutcome,     \* how the last setupToolHandlers ended
  inv,              \* the invocations, by slot
  now,              \* the clock, in milliseconds
  proc,             \* the process: running | exit1
  stdout,           \* what was written to standard output, in order
  stderr,           \* what was written to standard error, in order
  boot,             \* the bootstrap's position and what it has established
  opts,             \* the command line options
  env               \* the environment variables

regVars == <<tools, toolInstances, registeredTools, initCalls, initOutcome,
             transport, supplied, setupRuns, setupOutcome>>

ioVars == <<stdout, stderr>>

\* The bootstrap's own state: the registry's operations, dispatch and the
\* clock neither read nor write it, and say nothing about it.
bootVars == <<boot, opts, env>>

\* Map.prototype.keys(): the keys in insertion order.
MapKeys(m) == [k \in 1..Len(m) |-> m[k].name]

MapHas(m, name) == \E k \in 1..Len(m) : m[k].name = name

\* A table kept as a plain list: every set appends an entry.
MapSet_Append(m, name, tool) == Append(m, [name |-> name, tool |-> tool])

\* Map.prototype.set: a present key keeps its place and takes the new value.
MapSet(m, name, tool) ==
  IF MapHas(m, name)
  THEN [k \in 1..Len(m) |->
          IF m[k].name = name THEN [name |-> name, tool |-> tool] ELSE m[k]]
  ELSE Append(m, [name |-> name, tool |-> tool])

\* Map.prototype.get
MapGet(m, name) ==
  IF MapHas(m, name)
  THEN (CHOOSE e \in {m[k] : k \in 1..Len(m)} : e.name = name).tool
  ELSE Undefined

\* new EchoTool(context), new PingTool(context), ...: one fresh object per
\* entry of the list, told apart by the call that made it and its place.
NewTools(list, call) ==
  [k \in 1..Len(list) |-> [cls |-> list[k], gen |-> call, pos |-> k]]

RECURSIVE SetAll(_, _, _)
\* for (const tool of tools) this.toolInstances.set(tool.name, tool)
SetAll(m, ts, k) ==
  IF k > Len(ts) THEN m
  ELSE SetAll(MapSet(m, ToolName(ts[k].cls), ts[k]), ts, k + 1)

Initialize ==
  /\ proc = "running"
  /\ initCalls < MaxInitialize
  /\ toolInstances' = SetAll(toolInstances, NewTools(tools, initCalls + 1), 1)
  /\ initCalls' = initCalls + 1
  /\ initOutcome' = "returned"
  /\ stdout' = Append(stdout, "ToolRegistry initialized")
  /\ UNCHANGED <<tools, registeredTools, transport, supplied, setupRuns,
                 setupOutcome, inv, now, proc, stderr>>

\* A lookup that falls back to the first entry for a name the table lacks.
getToolByName_Fallback(name) ==
  IF MapHas(toolInstances, name) \/ Len(toolInstances) = 0
  THEN MapGet(toolInstances, name)
  ELSE toolInstances[1].tool

getToolByName(name) == MapGet(toolInstances, name)

\* A registration of the tool's execute in place of its handler.
BoundCallback_Execute(tool) == [self |-> tool, method |-> "execute"]

\* tool.handler.bind(tool): the tool's handler method, bound to the tool.
BoundCallback(tool) == [self |-> tool, method |-> "handler"]

\* A registration under the tool's class name in place of its name.
Registration_ClassName(tool) ==
  [name |-> tool.cls,
   description |-> ToolDescription(tool.cls),
   inputSchema |-> getInputSchema(tool.cls),
   callback |-> BoundCallback(tool)]

\* The arguments of one this.server.registerTool(...) call.
Registration(tool) ==
  [name |-> ToolName(tool.cls),
   description |-> ToolDescription(tool.cls),
   inputSchema |-> getInputSchema(tool.cls),
   callback |-> BoundCallback(tool)]

TransportNames(tr) == {r.name : r \in tr}

\* The McpServer's registerTool belongs to the SDK, not to the repository:
\* on a name it already holds it either throws (rejects) or takes the new
\* registration in place of the old one.
RegisterTool(tr, reg, rejects) ==
  IF reg.name \in TransportNames(tr)
  THEN IF rejects
       THEN [threw |-> TRUE, transport |-> tr]
       ELSE [threw |-> FALSE,
             transport |-> {r \in tr : r.name # reg.name} \cup {reg}]
  ELSE [threw |-> FALSE, transport |-> tr \cup {reg}]

RECURSIVE SetupLoop(_, _, _, _)
\* for (const tool of this.toolInstances.values()) { registerTool; push }
\* st: the transport, the calls made, registeredTools, and whether a call threw.
SetupLoop(m, k, st, rejects) ==
  IF k > Len(m) \/ st.threw THEN st
  ELSE LET reg == Registration(m[k].tool)
           r == RegisterTool(st.transport, reg, rejects)
       IN SetupLoop(m, k + 1,
            [transport |-> r.transport,
             supplied |-> Append(st.supplied, reg),
             registered |-> IF r.threw THEN st.registered
                            ELSE Append(st.registered, reg.name),
             threw |-> r.threw],
            rejects)

setupToolHandlers ==
  /\ proc = "running"
  /\ Len(toolInstances) > 0 => setupRuns < MaxSetup
  /\ \E rejects \in BOOLEAN :
       LET st == SetupLoop(toolInstances, 1,
                   [transport |-> transport, supplied |-> <<>>,
                    registered |-> registeredTools, threw |-> FALSE],
                   rejects)
       IN /\ transport' = st.transport
          /\ supplied' = st.supplied
          /\ registeredTools' = st.registered
          /\ setupOutcome' = IF st.threw THEN "threw" ELSE "returned"
  /\ setupRuns' = IF Len(toolInstances) > 0 THEN setupRuns + 1 ELSE setupRuns
  /\ UNCHANGED <<tools, toolInstances, initCalls, initOutcome, inv, now, proc,
                 ioVars>>

getRegisteredTools == registeredTools

(* ------------------------------ tools --------------------------------- *)

Empty == [none |-> TRUE]

\* A timestamp cut to whole seconds.
ToISOString_Seconds(t) == [sec |-> t \div 1000, ms |-> 0]

\* Date.prototype.toISOString: the time value in whole seconds and the
\* milliseconds within the second (YYYY-MM-DDTHH:mm:ss.sssZ).
ToISOString(t) == [sec |-> t \div 1000, ms |-> t % 1000]

\* The time value an ISO string denotes (Date.parse).
ParseISO(s) == s.sec * 1000 + s.ms

\* An echo that takes the empty message for a missing one.
EchoExecute_Falsy(args) ==
  [success |-> TRUE,
   message |-> "Message echoed successfully",
   data |-> [message |-> IF args["message"].v = "" THEN "undefined"
                         ELSE args["message"].v]]

EchoExecute(args) ==
  [success |-> TRUE,
   message |-> "Message echoed successfully",
   data |-> [message |-> args["message"].v]]

\* clock: the reading new Date() takes when execute runs.
PingExecute(clock) ==
  [success |-> TRUE,
   message |-> "Server is responding",
   data |-> [status |-> "ok", timestamp |-> ToISOString(clock)]]

\* The README's example tool: the result of someOperation(args.input).
MyToolExecute(args) ==
  [success |-> TRUE,
   message |-> "Operation completed successfully",
   data |-> [result |-> args["input"].v]]

Execute(cls, args, clock) ==
  CASE cls = "EchoTool" -> EchoExecute(args)
    [] cls = "PingTool" -> PingExecute(clock)
    [] cls = "MyTool" -> MyToolExecute(args)

\* Whether execute reads the clock (new Date()).
ReadsClock(cls) == cls = "PingTool"

\* Whether execute may raise: echo and ping only build and return a value;
\* the example tool awaits an operation that can fail.
MayRaise(cls) == IF cls = "MyTool" THEN BOOLEAN ELSE {FALSE}

(* ----------------------------- dispatch ------------------------------- *)

Payload(message, input) == [f \in Fields |->
  IF f = "message" THEN message ELSE input]

Request(name, payload) == [name |-> name, payload |-> payload]

\* The requests a caller sends: each tool with arguments that fit its schema
\* and with arguments that do not, and a name no tool has.
Requests ==
  { Request("echo", Payload(Str("hello"), Absent)),
    Request("echo", Payload(Str(""), Absent)),
    Request("echo", Payload(Absent, Absent)),
    Request("echo", Payload(Num("42"), Str("hello"))),
    Request("ping", Payload(Absent, Absent)),
    Request("my_tool", Payload(Absent, Str("hello"))),
    Request("my_tool", Payload(Str("hello"), Absent)),
    Request("nonexistent", Payload(Absent, Absent)) }

Names == {r.name : r \in Requests}

\* Validation of a payload against a schema: every required field is there
\* and every field that is there has its declared type.
Valid(schema, payload) ==
  \A f \in schema :
    \/ payload[f.field].t = f.type
    \/ (~f.required /\ payload[f.field] = Absent)

\* The parsed arguments: the declared fields of the payload, the rest dropped.
Parsed(schema, payload) ==
  [f \in Fields |->
     IF \E d \in schema : d.field = f THEN payload[f] ELSE Absent]

NotFound(name) ==
  [success |-> FALSE, message |-> "unknown capability: " \o name, data |-> Empty]

InvalidInput ==
  [success |-> FALSE, message |-> "invalid input", data |-> Empty]

ExecutionFault ==
  [success |-> FALSE, message |-> "tool execution failed", data |-> Empty]

Slots == 1..MaxInFlight

Idle ==
  [pc |-> "idle", name |-> "", payload |-> Payload(Absent, Absent),
   tool |-> Undefined, args |-> Payload(Absent, Absent), executed |-> 0,
   called |-> 0, returned |-> 0, raised |-> FALSE, logged |-> 0,
   replies |-> 0, escaped |-> FALSE, result |-> Empty]

vars == <<regVars, inv, now, proc, ioVars, bootVars>>

\* Whether the logger writes to the console: enableConsole, which the
\* bootstrap sets for the http transport only.
ConsoleEnabled == boot.loggerReady /\ opts.transport = "http"

\* One request through dispatch, up to the point where the capability's
\* execute has been called and its promise is pending. called: the clock at
\* the call, which is the reading new Date() takes in execute's body; kept
\* for the calls that read the clock.
Dispatch(i, name, payload) ==
  /\ proc = "running"
  /\ inv[i].pc = "idle"
  /\ \A j \in Slots : j < i => inv[j].pc # "idle"
  /\ LET tool == getToolByName(name)
         received == [Idle EXCEPT !.name = name, !.payload = payload]
     IN inv' = [inv EXCEPT ![i] =
          IF tool = Undefined
          THEN [received EXCEPT !.pc = "done", !.replies = 1,
                                !.result = NotFound(name)]
          ELSE IF ~Valid(Registration(tool).inputSchema, payload)
          THEN [received EXCEPT !.pc = "done", !.tool = tool, !.replies = 1,
                                !.result = InvalidInput]
          ELSE [received EXCEPT !.pc = "awaiting", !.tool = tool,
                  !.args = Parsed(Registration(tool).inputSchema, payload),
                  !.executed = 1,
                  !.called = IF ReadsClock(tool.cls) THEN now ELSE 0]]
  /\ UNCHANGED <<regVars, now, proc, ioVars>>

\* When the call returned, kept for the calls that read the clock.
Returned(slot) == IF ReadsClock(slot.tool.cls) THEN now ELSE 0

\* The invocation wrapper: a result passes through, a fault is logged and
\* becomes a failure envelope.
Handler(slot, raised) ==
  IF raised
  THEN [slot EXCEPT !.pc = "done", !.raised = TRUE, !.logged = @ + 1,
                    !.replies = @ + 1, !.result = ExecutionFault,
                    !.returned = Returned(slot)]
  ELSE [slot EXCEPT !.pc = "done", !.replies = @ + 1, !.returned = Returned(slot),
          !.result = Execute(slot.tool.cls, slot.args, slot.called)]

\* execute called with no wrapper around it: a fault leaves as a rejection.
Unwrapped(slot, raised) ==
  IF raised
  THEN [slot EXCEPT !.pc = "done", !.raised = TRUE, !.escaped = TRUE,
                    !.returned = Returned(slot)]
  ELSE [slot EXCEPT !.pc = "done", !.replies = @ + 1, !.returned = Returned(slot),
          !.result = Execute(slot.tool.cls, slot.args, slot.called)]

\* The pending call of the registered callback settles. A rejection nobody
\* handles reaches process.on("unhandledRejection"), which exits with 1.
Settle(i) ==
  /\ proc = "running"
  /\ inv[i].pc = "awaiting"
  /\ \E raised \in MayRaise(inv[i].tool.cls) :
       LET cb == Registration(inv[i].tool).callback
           after == IF cb.method = "handler" THEN Handler(inv[i], raised)
                    ELSE Unwrapped(inv[i], raised)
       IN /\ inv' = [inv EXCEPT ![i] = after]
          /\ proc' = IF after.escaped THEN "exit1" ELSE proc
          /\ stdout' = IF after.logged > inv[i].logged /\ ConsoleEnabled
                        THEN Append(stdout, "logger.error") ELSE stdout
  /\ UNCHANGED <<regVars, now, stderr>>

Tick ==
  /\ proc = "running"
  /\ now < ClockStart + MaxTicks
  /\ now' = now + 1
  /\ UNCHANGED <<regVars, inv, proc, ioVars>>

(* ----------------------------- bootstrap ------------------------------ *)

Unset == "<unset>"

\* --transport: the default, the other accepted value, and one not accepted.
TransportOptions == {"stdio", "http", "sse"}

\* LOG_LEVEL: not set, a level, and a word that is no level.
LogLevelSettings == {Unset, "debug", "verbose"}

MaxResponseSize == 100000

DefaultPageSize == 50

loadConfig(e) ==
  [mcp |-> [maxResponseSize |-> MaxResponseSize,
            defaultPageSize |-> DefaultPageSize],
   logging |-> [level |-> IF e.LOG_LEVEL = Unset THEN "info" ELSE e.LOG_LEVEL]]

validLogLevels == {"error", "warn", "info", "debug"}

validateConfig(config) ==
  /\ config.mcp.maxResponseSize > 0
  /\ config.mcp.defaultPageSize > 0
  /\ config.logging.level \in validLogLevels

BootBegin ==
  [pc |-> "start", transportOk |-> FALSE, config |-> loadConfig([LOG_LEVEL |-> Unset]),
   loggerReady |-> FALSE, configOk |-> FALSE, initOk |-> FALSE,
   started |-> FALSE, failed |-> "none"]

\* The state after construction, before the command line is acted on.
InitServer ==
  /\ tools \in ToolLists
  /\ toolInstances = <<>>
  /\ registeredTools = <<>>
  /\ initCalls = 0
  /\ initOutcome = "none"
  /\ transport = {}
  /\ supplied = <<>>
  /\ setupRuns = 0
  /\ setupOutcome = "none"
  /\ inv = [i \in Slots |-> Idle]
  /\ now = ClockStart
  /\ proc = "running"
  /\ stdout = <<>>
  /\ stderr = <<>>
  /\ boot = BootBegin

\* The registry on its own, with the options' defaults.
Init ==
  /\ InitServer
  /\ opts = [transport |-> "stdio"]
  /\ env = [LOG_LEVEL |-> Unset]

InitBoot ==
  /\ InitServer
  /\ opts \in [transport : TransportOptions]
  /\ env \in [LOG_LEVEL : LogLevelSettings]

\* process.exit(1) after a failed step of the bootstrap.
Exit1(why) == [boot EXCEPT !.pc = "exited", !.failed = why]

\* if (!["stdio", "http"].includes(transport)) { console.error; exit(1) }
BootCheckTransport ==
  /\ proc = "running"
  /\ boot.pc = "start"
  /\ IF opts.transport \in {"stdio", "http"}
     THEN /\ boot' = [boot EXCEPT !.pc = "config", !.transportOk = TRUE]
          /\ UNCHANGED <<proc, stderr>>
     ELSE /\ boot' = Exit1("transport")
          /\ proc' = "exit1"
          /\ stderr' = Append(stderr, "Error: Transport must be either stdio or http")
  /\ UNCHANGED <<regVars, inv, now, stdout, opts, env>>

\* loadConfig(); logger.initialize({enableConsole: transport === "http"});
\* logger.info("Starting MCP Server")
BootConfigure ==
  /\ proc = "running"
  /\ boot.pc = "config"
  /\ boot' = [boot EXCEPT !.pc = "validate", !.config = loadConfig(env),
                          !.loggerReady = TRUE]
  /\ stdout' = IF opts.transport = "http"
               THEN Append(stdout, "logger.info: Starting MCP Server")
               ELSE stdout
  /\ UNCHANGED <<regVars, inv, now, proc, stderr, opts, env>>

\* The step after validateConfig: on, or out.
AfterValidate_NoExit(ok) == "init"

AfterValidate(ok) == IF ok THEN "init" ELSE "exited"

\* if (!validateConfig(config)) { console.error; exit(1) }; validateConfig
\* itself reports what it rejects on standard error.
BootValidate ==
  /\ proc = "running"
  /\ boot.pc = "validate"
  /\ LET ok == validateConfig(boot.config)
         to == AfterValidate(ok)
     IN /\ boot' = [boot EXCEPT !.pc = to, !.configOk = ok,
                      !.failed = IF to = "exited" THEN "config" ELSE @]
        /\ proc' = IF to = "exited" THEN "exit1" ELSE proc
        /\ stderr' = IF ok THEN stderr
                     ELSE stderr \o <<"Configuration validation failed",
                                      "Invalid configuration">>
  /\ UNCHANGED <<regVars, inv, now, stdout, opts, env>>

\* mcpServer.initialize(config), first half: the registry is initialized.
BootInitialize ==
  /\ boot.pc = "init"
  /\ Initialize
  /\ boot' = [boot EXCEPT !.pc = "setup"]
  /\ UNCHANGED <<opts, env>>

\* mcpServer.initialize(config), second half: the handlers are registered
\* with the McpServer, which is new and holds no name yet.
BootSetup ==
  /\ boot.pc = "setup"
  /\ setupToolHandlers
  /\ setupOutcome' = "returned"
  /\ boot' = [boot EXCEPT !.pc = "start-server", !.initOk = TRUE]
  /\ UNCHANGED <<opts, env>>

\* mcpServer.start({type: transport, ...}) is called: the transport opens.
BootStartTransport ==
  /\ proc = "running"
  /\ boot.pc = "start-server"
  /\ boot' = [boot EXCEPT !.pc = "starting", !.started = TRUE]
  /\ UNCHANGED <<regVars, inv, now, proc, ioVars, opts, env>>

\* start has returned. stdio: process.stdin.resume(); http: logger.info and
\* console.log("HTTP MCP Server is running...").
BootServing ==
  /\ proc = "running"
  /\ boot.pc = "starting"
  /\ boot' = [boot EXCEPT !.pc = "serving"]
  /\ stdout' = IF opts.transport = "http"
               THEN stdout \o <<"logger.info: MCP Server started successfully",
                                "HTTP MCP Server is running">>
               ELSE stdout
  /\ UNCHANGED <<regVars, inv, now, proc, stderr, opts, env>>

\* A step of the try block throws or rejects: catch (error) {
\* console.error("Failed to start server:", error); process.exit(1) }
BootFault ==
  /\ proc = "running"
  /\ boot.pc \in {"config", "init", "setup", "starting"}
  /\ boot' = Exit1(CASE boot.pc = "config" -> "setup-of-logging"
                     [] boot.pc \in {"init", "setup"} -> "init"
                     [] boot.pc = "starting" -> "start")
  /\ proc' = "exit1"
  /\ stderr' = Append(stderr, "Failed to start server")
  /\ UNCHANGED <<regVars, inv, now, stdout, opts, env>>

DispatchAny == \E i \in Slots, r \in Requests : Dispatch(i, r.name, r.payload)

SettleAny == \E i \in Slots : Settle(i)

Probe == \E i \in 1..MaxProbes, r \in Requests : Dispatch(i, r.name, r.payload)

SettleProbe == \E i \in 1..MaxProbes : Settle(i)

\* The registry's operations in any order, with requests at any time.
Next ==
  \/ Initialize /\ UNCHANGED bootVars
  \/ setupToolHandlers /\ UNCHANGED bootVars
  \/ Probe /\ UNCHANGED bootVars
  \/ SettleProbe /\ UNCHANGED bootVars

Spec == Init /\ [][Next]_vars

\* The server as started: initialize, then setupToolHandlers, once each; the
\* clock runs while concurrent requests are served.
NextServing ==
  \/ initCalls = 0 /\ Initialize /\ UNCHANGED bootVars
  \/ initCalls = 1 /\ setupRuns = 0 /\ setupToolHandlers /\ UNCHANGED bootVars
  \/ DispatchAny /\ UNCHANGED bootVars
  \/ SettleAny /\ UNCHANGED bootVars
  \/ Tick /\ UNCHANGED bootVars

SpecServing == Init /\ [][NextServing]_vars

\* The process from its command line on: the bootstrap's steps in order,
\* then requests once the server serves.
NextBoot ==
  \/ BootCheckTransport
  \/ BootConfigure
  \/ BootValidate
  \/ BootInitialize
  \/ BootSetup
  \/ BootStartTransport
  \/ BootServing
  \/ BootFault
  \/ boot.pc = "serving" /\ Probe /\ UNCHANGED bootVars
  \/ boot.pc = "serving" /\ SettleProbe /\ UNCHANGED bootVars

SpecBoot == InitBoot /\ [][NextBoot]_vars

(* ------------------------------ claims -------------------------------- *)

Done(i) == inv[i].pc = "done"

TableNames == {toolInstances[k].name : k \in 1..Len(toolInstances)}

\* The names two entries of a registration list share.
DuplicateNames(list) ==
  {ToolName(list[j]) : j \in {j \in 1..Len(list) :
     \E k \in 1..Len(list) : k # j /\ ToolName(list[k]) = ToolName(list[j])}}

\* C1: when the list handed to initialize holds two tools of one name,
\* initialize ends with an error and the table holds no entry for that name.
C1_DuplicateNamesFailFast ==
  (initCalls > 0 /\ DuplicateNames(tools) # {}) =>
    /\ initOutcome = "threw"
    /\ \A n \in DuplicateNames(tools) : ~MapHas(toolInstances, n)

\* C2: a dispatch of a name the registry does not hold ends with a failure
\* envelope and no call of execute, and getToolByName gives the empty result
\* for such a name in every state of the registry.
C2_UnregisteredNameFails ==
  /\ \A n \in Names : n \notin TableNames => getToolByName(n) = Undefined
  /\ \A i \in Slots :
       (inv[i].pc # "idle" /\ inv[i].name \notin TableNames) =>
         /\ Done(i)
         /\ inv[i].tool = Undefined
         /\ inv[i].replies = 1
         /\ inv[i].result.success = FALSE
         /\ inv[i].executed = 0
         /\ ~inv[i].escaped

C2_Witness ==
  \E i \in Slots :
    /\ Done(i)
    /\ inv[i].name = "nonexistent"
    /\ inv[i].result = NotFound("nonexistent")
    /\ Len(toolInstances) > 0

\* C3: a dispatch of a registered capability whose payload violates the
\* capability's input schema (echo without a string message) ends with a
\* failure envelope and no call of execute; execute is reached only with
\* arguments that passed validation against getInputSchema().
C3_InvalidInputNeverExecutes ==
  \A i \in Slots :
    inv[i].tool # Undefined =>
      /\ ~Valid(getInputSchema(inv[i].tool.cls), inv[i].payload) =>
           /\ Done(i)
           /\ inv[i].replies = 1
           /\ inv[i].result.success = FALSE
           /\ inv[i].executed = 0
      /\ (inv[i].tool.cls = "EchoTool" /\ inv[i].payload["message"].t # "string") =>
           /\ Done(i)
           /\ inv[i].result.success = FALSE
           /\ inv[i].executed = 0
      /\ inv[i].executed > 0 =>
           /\ Valid(getInputSchema(inv[i].tool.cls), inv[i].payload)
           /\ inv[i].args = Parsed(getInputSchema(inv[i].tool.cls), inv[i].payload)

C3_Witness ==
  \E i \in Slots :
    /\ Done(i)
    /\ inv[i].tool # Undefined
    /\ inv[i].tool.cls = "EchoTool"
    /\ inv[i].payload["message"] = Absent
    /\ inv[i].result = InvalidInput
    /\ inv[i].executed = 0

\* C4: when a capability's execute raises, the handler registered with the
\* transport returns exactly one envelope, with success = false, the fault
\* does not leave dispatch, and it is logged exactly once.
C4_FaultBecomesEnvelope ==
  \A i \in Slots :
    inv[i].raised =>
      /\ Done(i)
      /\ ~inv[i].escaped
      /\ inv[i].replies = 1
      /\ inv[i].result.success = FALSE
      /\ inv[i].logged = 1
      /\ proc = "running"

C4_Witness ==
  \E i \in Slots : inv[i].raised /\ inv[i].executed = 1 /\ Done(i)

\* A failed invocation: unknown name, invalid input, or a fault of execute.
Failed(slot) ==
  slot.pc = "done" /\ (slot.escaped \/ slot.raised \/ ~slot.result.success)

\* The envelope an invocation's own request, lookup and execution determine.
OwnOutcome(slot) ==
  IF slot.tool = Undefined THEN NotFound(slot.name)
  ELSE IF slot.executed = 0 THEN InvalidInput
  ELSE IF slot.raised THEN ExecutionFault
  ELSE Execute(slot.tool.cls, slot.args, slot.called)

\* C5: a failing invocation ends that invocation only: the step in which it
\* fails leaves the process running and every other invocation as it was,
\* and every finished invocation has the outcome its own request determines,
\* under every interleaving.
C5_FailureIsLocal ==
  /\ [](\A i \in Slots :
          Done(i) => ~inv[i].escaped /\ inv[i].replies = 1
                     /\ inv[i].result = OwnOutcome(inv[i]))
  /\ [][\A i \in Slots :
          (inv'[i] # inv[i] /\ Failed(inv'[i])) =>
            /\ proc = "running" /\ proc' = "running"
            /\ \A j \in Slots \ {i} : inv'[j] = inv[j]]_vars

\* An invocation failed while another was in flight, which then succeeded.
C5_Witness ==
  \E i, j \in Slots :
    /\ i # j
    /\ Failed(inv[i]) /\ inv[i].raised
    /\ Done(j) /\ inv[j].tool # Undefined /\ inv[j].tool.cls = "PingTool"
    /\ inv[j].result.success
    /\ inv[j].called < inv[j].returned
    /\ proc = "running"

\* C6: once the first initialize has completed, no operation of the registry
\* and no dispatch changes the table: neither the names it maps nor the
\* instance a name maps to.
C6_TableImmutable ==
  [][initCalls >= 1 => toolInstances' = toolInstances]_vars

RECURSIVE FirstOccurrences(_, _)
\* The names of a registration list in order, each at its first place.
FirstOccurrences(list, k) ==
  IF k = 0 THEN <<>>
  ELSE LET before == FirstOccurrences(list, k - 1)
           n == ToolName(list[k])
       IN IF \E j \in 1..Len(before) : before[j] = n THEN before
          ELSE Append(before, n)

RegistrationOrder == FirstOccurrences(tools, Len(tools))

\* C7 as stated: once the registry is initialized, getRegisteredTools
\* returns the registration list (echo, ping), each name once, whatever
\* operations ran in between.
C7_ListStableOnceInitialized ==
  initCalls > 0 =>
    /\ getRegisteredTools = RegistrationOrder
    /\ tools = <<"EchoTool", "PingTool">> => getRegisteredTools = <<"echo", "ping">>

\* C7, amended: getRegisteredTools returns the empty list until
\* setupToolHandlers has run on the initialized registry; after its first
\* such run, and until it is run again, it returns the registration list
\* (echo, ping), each name once, whatever else ran in between.
C7_ListStableOnceSetUp ==
  /\ setupRuns = 0 => getRegisteredTools = <<>>
  /\ setupRuns = 1 =>
       /\ getRegisteredTools = RegistrationOrder
       /\ tools = <<"EchoTool", "PingTool">> => getRegisteredTools = <<"echo", "ping">>

\* The list after set-up, a second initialize and a dispatch.
C7_Witness ==
  /\ setupRuns = 1
  /\ initCalls = 2
  /\ tools = <<"EchoTool", "PingTool">>
  /\ getRegisteredTools = <<"echo", "ping">>
  /\ \E i \in Slots : Done(i)

\* What holds when setupToolHandlers has returned: one registerTool call per
\* entry of the table, in the table's order, with the entry's own name,
\* description, input schema and its handler bound to the entry's instance;
\* and the transport holds exactly the table's names.
SetupPost ==
  /\ Len(supplied) = Len(toolInstances)
  /\ \A k \in 1..Len(toolInstances) :
       LET t == toolInstances[k].tool
           r == supplied[k]
       IN /\ r.name = toolInstances[k].name
          /\ r.name = ToolName(t.cls)
          /\ r.description = ToolDescription(t.cls)
          /\ r.inputSchema = getInputSchema(t.cls)
          /\ r.callback = [self |-> t, method |-> "handler"]
          /\ r \in transport
  /\ \A j, k \in 1..Len(supplied) : j # k => supplied[j].name # supplied[k].name
  /\ TransportNames(transport) = TableNames
  /\ Cardinality(transport) = Cardinality(TableNames)

\* C8: a setupToolHandlers call that returns has supplied every capability
\* of the table to registerTool exactly once, with its own name, description,
\* input schema and bound handler, and leaves the transport with exactly the
\* table's names.
C8_SetupSuppliesEachOnce ==
  [][(setupToolHandlers /\ setupOutcome' = "returned") => SetupPost']_vars

\* A set-up that returned after the table was rebuilt by a second initialize.
C8_Witness ==
  /\ setupOutcome = "returned"
  /\ Len(supplied) = Len(toolInstances)
  /\ Len(supplied) >= 2
  /\ supplied[1].callback.self.gen = 2
  /\ setupRuns = 2

EchoEnvelope(m) ==
  [success |-> TRUE, message |-> "Message echoed successfully",
   data |-> [message |-> m]]

EchoDone(i) ==
  Done(i) /\ inv[i].name = "echo" /\ inv[i].executed = 1

\* C9: echo called with {message: m} returns success, the message "Message
\* echoed successfully" and data.message = m unchanged, for every string m,
\* and two calls with the same input return equal envelopes.
C9_EchoReturnsInput ==
  /\ \A i \in Slots :
       EchoDone(i) => inv[i].result = EchoEnvelope(inv[i].payload["message"].v)
  /\ \A i, j \in Slots :
       (EchoDone(i) /\ EchoDone(j) /\ inv[i].payload = inv[j].payload) =>
         inv[i].result = inv[j].result

C9_Witness ==
  \E i, j \in Slots :
    /\ i # j
    /\ EchoDone(i) /\ EchoDone(j)
    /\ inv[i].payload["message"] = Str("")
    /\ inv[j].payload["message"] = Str("")
    /\ inv[i].result.data.message = ""

PingDone(i) ==
  Done(i) /\ inv[i].name = "ping" /\ inv[i].executed = 1

\* C10: ping returns success, the message "Server is responding", status
\* "ok" and a timestamp no earlier than the call's start and no later than
\* its return, also with several pings in flight at once.
C10_PingTimestampWithinCall ==
  \A i \in Slots :
    PingDone(i) =>
      /\ inv[i].result.success = TRUE
      /\ inv[i].result.message = "Server is responding"
      /\ inv[i].result.data.status = "ok"
      /\ inv[i].called <= ParseISO(inv[i].result.data.timestamp)
      /\ ParseISO(inv[i].result.data.timestamp) <= inv[i].returned

\* Two pings whose calls overlap, one of them across a full second.
C10_Witness ==
  \E i, j \in Slots :
    /\ i # j
    /\ PingDone(i) /\ PingDone(j)
    /\ inv[i].called < inv[j].called
    /\ inv[j].called < inv[i].returned
    /\ inv[i].called < 1000 /\ inv[i].returned >= 1000

\* C11: the transport is started only after the transport type was found to
\* be stdio or http, validateConfig returned true and the server's
\* initialization completed without error; when one of the three fails the
\* process exits with code 1 and the transport is never started.
C11_StartOnlyAfterChecks ==
  /\ boot.started =>
       /\ boot.transportOk /\ opts.transport \in {"stdio", "http"}
       /\ boot.configOk /\ boot.config.logging.level \in validLogLevels
       /\ boot.initOk /\ initOutcome = "returned" /\ setupOutcome = "returned"
  /\ (boot.pc # "start" /\ opts.transport \notin {"stdio", "http"}) =>
       boot.failed = "transport"
  /\ (boot.pc \notin {"start", "config", "validate"} /\ boot.transportOk
        /\ boot.config.logging.level \notin validLogLevels) =>
       boot.failed = "config"
  /\ boot.failed \in {"transport", "config", "init"} =>
       /\ proc = "exit1"
       /\ boot.pc = "exited"
       /\ ~boot.started

\* The configuration was rejected (LOG_LEVEL names no level): exit 1, no
\* transport started.
C11_Witness ==
  /\ boot.failed = "config"
  /\ env.LOG_LEVEL = "verbose"
  /\ proc = "exit1"
  /\ ~boot.started
  /\ initCalls = 0

\* C12: with the stdio transport, a successful startup (logger set-up,
\* registry initialization, server start) writes nothing to standard output.
C12_StdioStartupKeepsStdoutClean ==
  (opts.transport = "stdio" /\ boot.pc = "serving") => stdout = <<>>

====
